---- MODULE Spec2Model ----
(***************************************************************************)
(* ORR free-energy-diagram class ORR_Free_E_Plot of                        *)
(* src/orr_reaction/__old__/old_orr_methods.py.                            *)
(*                                                                         *)
(* Energies and potentials are fixed-point numbers in hundredths of an eV  *)
(* (4.92 eV = 492).  A float cell is the record Num(x) or the marker NaN;  *)
(* arithmetic propagates NaN and every ordering comparison with NaN is     *)
(* false, as for IEEE floats.  A dataframe is a record of its column set   *)
(* and its row sequence; a row is a function from the column names.        *)
(***************************************************************************)
EXTENDS Integers, Sequences, FiniteSets

VARIABLES
    pc,                 \* "new" | "ready" | "bare" | "failed"
    err,                \* exception raised by the last call, or "none"
    free_energy_df,     \* the caller's table passed to __init__
    state_title,        \* self.state_title
    fe_title,           \* self.fe_title
    fe_df_bulk,         \* self.fe_df between add_bulk_entry and fill_missing_data
    fe_df,              \* self.fe_df
    num_of_states,      \* self.num_of_states
    energy_lst,         \* self.energy_lst
    overpotential,      \* self.overpotential
    limiting_step,      \* self.limiting_step
    energy_lst_h2o2,    \* self.energy_lst_h2o2
    overpotential_h2o2, \* self.overpotential_h2o2
    ret                 \* the last method call and what it returned

vars == << pc, err, free_energy_df, state_title, fe_title, fe_df_bulk, fe_df,
           num_of_states, energy_lst, overpotential, limiting_step,
           energy_lst_h2o2, overpotential_h2o2, ret >>

----------------------------------------------------------------------------
(* Bounds of the model *)

MaxRows == 4
MaxList == 3
MaxLookupRows == 5
MaxSteps == 4
MaxAggRows == 3
MaxFrameRows == 3
MaxRules == 2
MaxAdsRows == 3

(* Program constants, in hundredths of an eV *)

O2_REF == 492
EQ_POT == 123
H2O2_E == 352
OOH_2E_REF == 422

\* positions on the reaction coordinate are in tenths
DEFAULT_SPACING == 5
DEFAULT_STEP_SIZE == 10
MARKER_OFFSET == 5
TICK_STEP == 15
TICK_OFFSET == 5

\* the reference energies and the bare slab energy the calls are made with
OXY_REF == -400
HYD_REF == -20
BARE_SLAB_E == -300

----------------------------------------------------------------------------
(* Float cells *)

NaN == [nan |-> TRUE, v |-> 0]
Num(x) == [nan |-> FALSE, v |-> x]

FAdd(a, b) == IF a.nan \/ b.nan THEN NaN ELSE Num(a.v + b.v)
FSub(a, b) == IF a.nan \/ b.nan THEN NaN ELSE Num(a.v - b.v)
FMul(k, a) == IF a.nan THEN NaN ELSE Num(k * a.v)
FGt(a, b) == ~a.nan /\ ~b.nan /\ a.v > b.v

Unset == [unset |-> TRUE]
NoneDf == [cols |-> {}, rows |-> << >>]
NoCall == [op |-> "none"]
None == [none |-> TRUE]

----------------------------------------------------------------------------
(* Dataframes *)

NameCols == {"adsorbate", "state", "system", "site"}

ColNaN(c) == IF c \in NameCols THEN "nan" ELSE NaN

Reindex(row, cols) ==
    [c \in cols |-> IF c \in DOMAIN row THEN row[c] ELSE ColNaN(c)]

DfAppend(df, other) ==
    LET cols == df.cols \cup other.cols
    IN  [cols |-> cols,
         rows |-> [i \in 1..Len(df.rows) |-> Reindex(df.rows[i], cols)]
                  \o [i \in 1..Len(other.rows) |-> Reindex(other.rows[i], cols)]]

DataFrame1(c1, v1, c2, v2) ==
    [cols |-> {c1, c2},
     rows |-> << [c \in {c1, c2} |-> IF c = c1 THEN v1 ELSE v2] >>]

Loc(df, col, val) == SelectSeq(df.rows, LAMBDA r : r[col] = val)

----------------------------------------------------------------------------
(* ORR_Free_E_Plot *)

rxn_mech_states == << "bulk", "ooh", "o", "oh", "bulk" >>
ideal_energy == << Num(492), Num(369), Num(246), Num(123), Num(0) >>

add_bulk_entry_if_absent(df, bulk_e) ==
    IF "adsorbate" \in df.cols /\ Loc(df, "adsorbate", "bulk") # << >>
    THEN df
    ELSE DfAppend(df, DataFrame1("adsorbate", "bulk", "ads_e", bulk_e))

add_bulk_entry(df, bulk_e) ==
    DfAppend(df, DataFrame1("adsorbate", "bulk", "ads_e", bulk_e))

\* df_missing_data of fill_missing_data, from the i-th state of rxn_mech_states on
RECURSIVE MissingData(_, _, _, _)
MissingData(df, S, E, i) ==
    IF i > Len(rxn_mech_states) THEN NoneDf
    ELSE LET state == rxn_mech_states[i]
             rest == MissingData(df, S, E, i + 1)
         IN  IF Loc(df, S, state) = << >>
             THEN DfAppend(DataFrame1(S, state, E, NaN), rest)
             ELSE rest

RECURSIVE MissingDataZero(_, _, _, _)
MissingDataZero(df, S, E, i) ==
    IF i > Len(rxn_mech_states) THEN NoneDf
    ELSE LET state == rxn_mech_states[i]
             rest == MissingDataZero(df, S, E, i + 1)
         IN  IF Loc(df, S, state) = << >>
             THEN DfAppend(DataFrame1(S, state, E, Num(0)), rest)
             ELSE rest

fill_missing_data_zero(df, S, E) == DfAppend(df, MissingDataZero(df, S, E, 1))

fill_missing_data(df, S, E) == DfAppend(df, MissingData(df, S, E, 1))

StateEnergy_last(df, S, E, state) ==
    LET df_state == Loc(df, S, state)
    IN  IF df_state = << >> THEN NaN ELSE df_state[Len(df_state)][E]

StateEnergy(df, S, E, state) ==
    LET df_state == Loc(df, S, state)
    IN  IF df_state = << >> THEN NaN ELSE df_state[1][E]

\* tmp.iloc[0] in property_list on a state without a row
PropertyListIndexError(df, S) ==
    \E i \in 1..Len(rxn_mech_states) : Loc(df, S, rxn_mech_states[i]) = << >>

property_list(df, S, column_name) ==
    [i \in 1..Len(rxn_mech_states) |-> Loc(df, S, rxn_mech_states[i])[1][column_name]]

\* lst[k - 1] = v of Python
ListSet(lst, k, v) == [i \in 1..Len(lst) |-> IF i = k THEN v ELSE lst[i]]

rxn_energy_lst_offset_all(df, S, E) ==
    [i \in 1..Len(rxn_mech_states) |->
        FAdd(StateEnergy(df, S, E, rxn_mech_states[i]), Num(O2_REF))]

rxn_energy_lst(df, S, E) ==
    LET lst == [i \in 1..Len(rxn_mech_states) |->
                    StateEnergy(df, S, E, rxn_mech_states[i])]
    IN  ListSet(lst, 1, FAdd(lst[1], Num(O2_REF)))

\* range(len(energy_list))[::-1]
ReversedRange(n) == [i \in 1..n |-> n - i]

list_after_apply_bias_in_place(bias, energy_list) ==
    [i \in 1..Len(energy_list) |->
        FSub(energy_list[i], FMul(ReversedRange(Len(energy_list))[i], Num(bias)))]

\* the list passed to apply_bias, after the call: the biased energies are
\* appended to a new list, mod_free_e_lst
list_after_apply_bias(bias, energy_list) == energy_list

apply_bias_one_electron(bias, energy_list) ==
    [i \in 1..Len(energy_list) |-> FSub(energy_list[i], FMul(1, Num(bias)))]

apply_bias_forward_range(bias, energy_list) ==
    [i \in 1..Len(energy_list) |-> FSub(energy_list[i], FMul(i - 1, Num(bias)))]

apply_bias(bias, energy_list) ==
    LET elec == ReversedRange(Len(energy_list))
    IN  [i \in 1..Len(energy_list) |-> FSub(energy_list[i], FMul(elec[i], Num(bias)))]

overpotential_lst_swapped(lst) ==
    [i \in 1..(Len(lst) - 1) |-> FSub(FAdd(Num(EQ_POT), lst[i]), lst[i + 1])]

overpotential_lst_no_eq(lst) ==
    [i \in 1..(Len(lst) - 1) |-> FSub(lst[i + 1], lst[i])]

overpotential_lst(lst) ==
    [i \in 1..(Len(lst) - 1) |-> FSub(FAdd(Num(EQ_POT), lst[i + 1]), lst[i])]

RECURSIVE PyMax(_, _, _)
PyMax(lst, i, best) ==
    IF i > Len(lst) THEN best
    ELSE PyMax(lst, i + 1, IF FGt(lst[i], best) THEN lst[i] ELSE best)

ListIndexLast(lst, x) == CHOOSE i \in 1..Len(lst) :
    lst[i] = x /\ \A j \in (i + 1)..Len(lst) : lst[j] # x

ListIndex(lst, x) == CHOOSE i \in 1..Len(lst) :
    lst[i] = x /\ \A j \in 1..(i - 1) : lst[j] # x

calc_overpotential(lst) ==
    LET op_lst == overpotential_lst(lst)
        op == PyMax(op_lst, 2, op_lst[1])
        lim_step_index == ListIndex(op_lst, op)
    IN  << op, << rxn_mech_states[lim_step_index],
                  rxn_mech_states[lim_step_index + 1] >> >>

H2O2Rows(df) ==
    SelectSeq(df.rows, LAMBDA r : r["adsorbate"] = "bulk" \/ r["adsorbate"] = "ooh")

rxn_energy_lst_h2o2(df) ==
    LET rs == H2O2Rows(df)
        lst == [i \in 1..Len(rs) |-> rs[i]["ads_e"]]
    IN  IF Len(lst) # 2 THEN << >>
        ELSE Append(ListSet(lst, 1, FAdd(lst[1], Num(O2_REF))), Num(H2O2_E))

H2O2ValueError_too_few(df) == Len(H2O2Rows(df)) < 2

\* raise ValueError("Not the correct # of steps for H2O2")
H2O2ValueError(df) == Len(H2O2Rows(df)) # 2

calc_overpotential_h2o2_last_row(df) ==
    LET ooh_row == Loc(df, "adsorbate", "ooh")
    IN  IF ooh_row = << >> THEN Unset
        ELSE FSub(ooh_row[Len(ooh_row)]["ads_e"], Num(OOH_2E_REF))

calc_overpotential_h2o2(df) ==
    LET ooh_row == Loc(df, "adsorbate", "ooh")
    IN  IF ooh_row = << >> THEN Unset
        ELSE FSub(ooh_row[1]["ads_e"], Num(OOH_2E_REF))

\* ooh_row.iloc[0] on an empty selection
H2O2IndexError(df) == Loc(df, "adsorbate", "ooh") = << >>

----------------------------------------------------------------------------
(* Plotting *)

xax_labels == << "O2", "OOH", "O", "OH", "H2O" >>

\* a list held as a tuple of its elements, each computed once
AsList(lst) == lst \o << >>

RECURSIVE CoordLoop(_, _, _, _, _)
\* the for loop of create_rxn_coord_array, from iteration i on
CoordLoop(lst, i, rxn_steps, spacing, step_size) ==
    IF i >= rxn_steps THEN lst
    ELSE IF i = 1
         THEN CoordLoop(lst \o << step_size, step_size + spacing >>,
                        i + 1, rxn_steps, spacing, step_size)
         ELSE CoordLoop(lst \o << lst[Len(lst)] + step_size,
                                  lst[Len(lst)] + step_size + spacing >>,
                        i + 1, rxn_steps, spacing, step_size)

create_rxn_coord_array_no_spacing(rxn_steps, spacing, step_size) ==
    LET lst == << 0 >> \o CoordLoop(<< >>, 1, rxn_steps, 0, step_size)
    IN  Append(lst, lst[Len(lst)] + step_size)

create_rxn_coord_array(rxn_steps, spacing, step_size) ==
    LET lst == << 0 >> \o CoordLoop(<< >>, 1, rxn_steps, spacing, step_size)
    IN  Append(lst, lst[Len(lst)] + step_size)

convert_to_plotting_list_concat(energy_list, spacing, step_size) ==
    << create_rxn_coord_array(Len(energy_list), spacing, step_size),
       energy_list \o energy_list >>

convert_to_plotting_list(energy_list, spacing, step_size) ==
    << create_rxn_coord_array(Len(energy_list), spacing, step_size),
       AsList([i \in 1..(2 * Len(energy_list)) |-> energy_list[((i - 1) \div 2) + 1]]) >>

\* list.insert(k, v), k counted from 0
ListInsert(lst, k, v) ==
    LET at == IF k > Len(lst) THEN Len(lst) ELSE k
    IN  SubSeq(lst, 1, at) \o << v >> \o SubSeq(lst, at + 1, Len(lst))

RECURSIVE BreakLoop(_, _, _, _)
\* the loop that adds the breaks, with n iterations left
BreakLoop(new_x_dat, new_y_dat, cnt, n) ==
    IF n = 0 THEN << new_x_dat, new_y_dat >>
    ELSE BreakLoop(ListInsert(new_x_dat, cnt, new_x_dat[cnt]),
                   ListInsert(new_y_dat, cnt, None),
                   cnt + 3, n - 1)

AddBreaks_after_last(x_dat, y_dat) == BreakLoop(x_dat, y_dat, 2, Len(x_dat) \div 2)

AddBreaks(x_dat, y_dat) == BreakLoop(x_dat, y_dat, 2, (Len(x_dat) \div 2) - 1)

\* y_dat[::2]
ShortY(y_dat) == AsList([i \in 1..((Len(y_dat) + 1) \div 2) |-> y_dat[2 * i - 1]])

RECURSIVE SortedList(_)
\* sorted(set)
SortedList(S) ==
    IF S = {} THEN << >>
    ELSE LET m == CHOOSE a \in S : \A b \in S : a <= b
         IN  << m >> \o SortedList(S \ {m})

ShortX_all_positions(new_x_dat) ==
    LET xdat == SortedList({ new_x_dat[i] : i \in 1..Len(new_x_dat) })
    IN  [i \in 1..Len(xdat) |-> xdat[i] + MARKER_OFFSET]

ShortX(new_x_dat) ==
    LET xdat == SortedList({ new_x_dat[i] : i \in 1..Len(new_x_dat) })
    IN  AsList([i \in 1..(Len(xdat) \div 2) |-> xdat[2 * i - 1] + MARKER_OFFSET])

\* dict.update({key: value}) of a dict held as a function of its keys
DictUpdate(d, key, value) ==
    [k \in (DOMAIN d) \cup {key} |-> IF k = key THEN value ELSE d[k]]

\* a smart_format entry [{df_col_name: value_i}, {setting_name: setting_value}]
\* is the record of its four parts; the test of create_plotly_series on one
FormatApplies(df, format_i) ==
    /\ format_i.df_col_name \in df.cols
    /\ \A j \in 1..Len(df.rows) :
          df.rows[j]["adsorbate"] # "bulk" =>
              df.rows[j][format_i.df_col_name] = format_i.value_i

RECURSIVE SmartFormatLoop_first_wins(_, _, _, _)
SmartFormatLoop_first_wins(df, smart_format, i, d) ==
    IF i > Len(smart_format) THEN d
    ELSE LET rest == SmartFormatLoop_first_wins(df, smart_format, i + 1, d)
         IN  IF FormatApplies(df, smart_format[i])
             THEN DictUpdate(rest, smart_format[i].setting_name, smart_format[i].setting_value)
             ELSE rest

RECURSIVE SmartFormatLoop(_, _, _, _)
\* the loop over smart_format, from entry i on
SmartFormatLoop(df, smart_format, i, d) ==
    IF i > Len(smart_format) THEN d
    ELSE SmartFormatLoop(df, smart_format, i + 1,
            IF FormatApplies(df, smart_format[i])
            THEN DictUpdate(d, smart_format[i].setting_name, smart_format[i].setting_value)
            ELSE d)

\* plot_parameter_dict of create_plotly_series once the series colour is set;
\* df is self.fe_df (NoneDf for None), smart_format None or a list, held as
\* [rules |-> list]
PlotParameterDict(df, color, smart_format) ==
    LET d == IF df # NoneDf /\ smart_format # None
             THEN SmartFormatLoop(df, smart_format.rules, 1, [k \in {"dash"} |-> None])
             ELSE [k \in {"dash"} |-> None]
    IN  IF "color" \in DOMAIN d THEN d ELSE DictUpdate(d, "color", color)

PlotModes == {"all", "states_only", "full_lines"}

\* hover_text when none is given
NoHoverText == [i \in 1..5 |-> NaN]

\* show_leg_2 stays unbound for any other plot_mode
PlotModeUnboundLocalError(plot_mode) == plot_mode \notin PlotModes

\* new_x_dat and new_y_dat of create_plotly_series
NewDat(energy_list) ==
    LET e_list == convert_to_plotting_list(energy_list, DEFAULT_SPACING, DEFAULT_STEP_SIZE)
    IN  AddBreaks(e_list[1], e_list[2])

\* thick horizontal state lines
data_1(energy_list, name, group, hover_text, color, plot_mode, plot_parameter_dict) ==
    [x |-> NewDat(energy_list)[1], y |-> NewDat(energy_list)[2],
     legendgroup |-> group, showlegend |-> TRUE, name |-> name,
     hoverinfo |-> "none", connectgaps |-> FALSE,
     line |-> [color |-> plot_parameter_dict["color"], width |-> 6,
               dash |-> plot_parameter_dict["dash"]],
     mode |-> "lines"]

data_2_legend_shown(energy_list, name, group, hover_text, color, plot_mode, plot_parameter_dict) ==
    [x |-> NewDat(energy_list)[1], y |-> NewDat(energy_list)[2],
     legendgroup |-> group, name |-> name, connectgaps |-> TRUE,
     showlegend |-> TRUE,
     hoverinfo |-> "none", text |-> hover_text,
     line |-> [color |-> plot_parameter_dict["color"], width |-> 1],
     mode |-> "lines"]

\* full, thin line
data_2(energy_list, name, group, hover_text, color, plot_mode, plot_parameter_dict) ==
    [x |-> NewDat(energy_list)[1], y |-> NewDat(energy_list)[2],
     legendgroup |-> group, name |-> name, connectgaps |-> TRUE,
     showlegend |-> (plot_mode = "full_lines"),
     hoverinfo |-> "none", text |-> hover_text,
     line |-> [color |-> plot_parameter_dict["color"], width |-> 1],
     mode |-> "lines"]

\* points in the middle of the energy states
data_3(energy_list, name, group, hover_text, color, plot_mode, plot_parameter_dict) ==
    [x |-> ShortX(NewDat(energy_list)[1]),
     y |-> ShortY(convert_to_plotting_list(energy_list, DEFAULT_SPACING,
                                           DEFAULT_STEP_SIZE)[2]),
     legendgroup |-> group, name |-> name, showlegend |-> FALSE,
     hoverinfo |-> "y+text", text |-> hover_text,
     marker |-> [size |-> 14, color |-> color, opacity |-> 0],
     mode |-> "markers"]

create_plotly_series_always_all(df, energy_list, name, group, hover_text, color, plot_mode, smart_format) ==
    LET ppd == PlotParameterDict(df, color, smart_format)
    IN
    << data_1(energy_list, name, group, hover_text, color, plot_mode, ppd),
       data_2(energy_list, name, group, hover_text, color, plot_mode, ppd),
       data_3(energy_list, name, group, hover_text, color, plot_mode, ppd) >>

\* self.create_plotly_series(...), df being self.fe_df
create_plotly_series(df, energy_list, name, group, hover_text, color, plot_mode, smart_format) ==
    LET ppd == PlotParameterDict(df, color, smart_format)
    IN
    CASE plot_mode = "all" ->
            << data_1(energy_list, name, group, hover_text, color, plot_mode, ppd),
               data_2(energy_list, name, group, hover_text, color, plot_mode, ppd),
               data_3(energy_list, name, group, hover_text, color, plot_mode, ppd) >>
      [] plot_mode = "states_only" ->
            << data_1(energy_list, name, group, hover_text, color, plot_mode, ppd),
               data_3(energy_list, name, group, hover_text, color, plot_mode, ppd) >>
      [] plot_mode = "full_lines" ->
            << data_2(energy_list, name, group, hover_text, color, plot_mode, ppd),
               data_3(energy_list, name, group, hover_text, color, plot_mode, ppd) >>

----------------------------------------------------------------------------
(* Module functions lowest_e_path and plot_all_states *)

\* ORR_Free_E_Plot(free_energy_df=df): the attributes the module functions read
ORR_Free_E_Plot(df) ==
    LET df2 == fill_missing_data(add_bulk_entry(df, Num(0)), "adsorbate", "ads_e")
        e_lst == AsList(rxn_energy_lst(df2, "adsorbate", "ads_e"))
    IN  [ValueError |-> H2O2ValueError(df2),
         fe_df |-> df2,
         energy_lst |-> e_lst,
         overpotential |-> calc_overpotential(e_lst)[1]]

\* lst[k] of Python, k counted from 0, negative k counted from the end
PyItem(lst, k) == IF k < 0 THEN lst[Len(lst) + k + 1] ELSE lst[k + 1]

\* ORR.plot_fed_series(bias, opt_name, properties=key, color_list, i_cnt,
\* hover_text_col, plot_mode); a name is the tuple of the parts of its string
plot_fed_series(ORR, bias, opt_name, key, color_list, i_cnt, hover_text_col, plot_mode, smart_format) ==
    LET e_list == AsList(apply_bias(bias, ORR.energy_lst))
        name_i == << opt_name, key, ORR.overpotential >>
        hover_text_list == AsList(property_list(ORR.fe_df, "adsorbate", hover_text_col))
    IN  create_plotly_series(ORR.fe_df, e_list, name_i, name_i, hover_text_list,
                             PyItem(color_list, i_cnt - 1), plot_mode, smart_format)

energy_lst_after_plot_fed_series_in_place(self_energy_lst, bias) ==
    apply_bias(bias, self_energy_lst)

\* self.energy_lst after plot_fed_series: e_list is rebound to the new list
\* apply_bias returns, and np.isnan(i) is True never holds
energy_lst_after_plot_fed_series(self_energy_lst, bias) ==
    list_after_apply_bias(bias, self_energy_lst)

plotly_fed_layout_no_offset(plot_title, plot_title_size, tick_lab_size, axes_lab_size, legend_size) ==
    [title |-> plot_title,
     font |-> [family |-> "Courier New, monospace", size |-> plot_title_size, color |-> "black"],
     yaxis |-> [title |-> "Free Energy [eV]", zeroline |-> TRUE,
                titlefont |-> [size |-> axes_lab_size], showgrid |-> FALSE,
                tickfont |-> [size |-> tick_lab_size]],
     xaxis |-> [title |-> "Reaction Coordinate", zeroline |-> TRUE,
                titlefont |-> [size |-> axes_lab_size], showgrid |-> FALSE,
                ticktext |-> xax_labels,
                tickvals |-> AsList([i \in 1..Len(xax_labels) |-> TICK_STEP * (i - 1)]),
                tickfont |-> [size |-> tick_lab_size]],
     legend |-> [traceorder |-> "normal", font |-> [size |-> legend_size]]]

\* plotly_fed_layout(plot_title, plot_title_size, tick_lab_size, axes_lab_size,
\* legend_size); tickvals are in tenths
plotly_fed_layout(plot_title, plot_title_size, tick_lab_size, axes_lab_size, legend_size) ==
    [title |-> plot_title,
     font |-> [family |-> "Courier New, monospace", size |-> plot_title_size, color |-> "black"],
     yaxis |-> [title |-> "Free Energy [eV]", zeroline |-> TRUE,
                titlefont |-> [size |-> axes_lab_size], showgrid |-> FALSE,
                tickfont |-> [size |-> tick_lab_size]],
     xaxis |-> [title |-> "Reaction Coordinate", zeroline |-> TRUE,
                titlefont |-> [size |-> axes_lab_size], showgrid |-> FALSE,
                ticktext |-> xax_labels,
                tickvals |-> AsList([i \in 1..Len(xax_labels) |-> TICK_STEP * (i - 1) + TICK_OFFSET]),
                tickfont |-> [size |-> tick_lab_size]],
     legend |-> [traceorder |-> "normal", font |-> [size |-> legend_size]]]

\* the atom counts calc_ads_e takes from row["adsorbate"] when the row has no
\* atom_type_num_dict column; they stay unbound for any other adsorbate
AtomCounts(adsorbate) ==
    CASE adsorbate = "ooh" -> [O |-> 2, H |-> 1]
      [] adsorbate = "o" -> [O |-> 1, H |-> 0]
      [] adsorbate = "oh" -> [O |-> 1, H |-> 1]
      [] OTHER -> None

\* calc_ads_e(df_row, bare_raw_e, correction, oxy_ref_e, hyd_ref_e): None
\* when the arithmetic raises
calc_ads_e(df_row, bare_raw_e, correction, oxy_ref_e, hyd_ref_e) ==
    LET num == AtomCounts(df_row["adsorbate"])
    IN  IF num = None \/ "elec_energy" \notin DOMAIN df_row THEN None
        ELSE FAdd(FSub(df_row["elec_energy"],
                       Num(bare_raw_e + num.O * oxy_ref_e + num.H * hyd_ref_e)),
                  correction)

\* corrections_dict[row["adsorbate"]]
DictItem(corrections_dict, row) ==
    IF row["adsorbate"] \in DOMAIN corrections_dict
    THEN [KeyError |-> FALSE, corr |-> Num(corrections_dict[row["adsorbate"]])]
    ELSE [KeyError |-> TRUE, corr |-> Num(0)]

Correction_dict_get(row, corrections_mode, corrections_column, corrections_dict) ==
    LET item == [KeyError |-> FALSE, corr |-> DictItem(corrections_dict, row).corr]
    IN
    IF corrections_mode = "df_column"
    THEN IF corrections_column \notin DOMAIN row
         THEN [KeyError |-> TRUE, corr |-> Num(0)]
         ELSE IF row[corrections_column] = Num(0) /\ corrections_dict # None
              THEN item
              ELSE [KeyError |-> FALSE, corr |-> row[corrections_column]]
    ELSE IF corrections_mode = "corr_dict" /\ corrections_dict # None
         THEN item
         ELSE [KeyError |-> FALSE, corr |-> Num(0)]

\* the correction df_calc_adsorption_e works out for one row
Correction(row, corrections_mode, corrections_column, corrections_dict) ==
    IF corrections_mode = "df_column"
    THEN IF corrections_column \notin DOMAIN row
         THEN [KeyError |-> TRUE, corr |-> Num(0)]
         ELSE IF row[corrections_column] = Num(0) /\ corrections_dict # None
              THEN DictItem(corrections_dict, row)
              ELSE [KeyError |-> FALSE, corr |-> row[corrections_column]]
    ELSE IF corrections_mode = "corr_dict" /\ corrections_dict # None
         THEN DictItem(corrections_dict, row)
         ELSE [KeyError |-> FALSE, corr |-> Num(0)]

\* df_calc_adsorption_e(df, oxy_ref, hyd_ref, bare_slab_e, corrections_mode,
\* corrections_column, corrections_dict) with a float bare_slab_e: the table
\* after the call, which is left as it was when a row raises
df_calc_adsorption_e(df, oxy_ref, hyd_ref, bare_slab_e, corrections_mode, corrections_column, corrections_dict) ==
    LET corrs == AsList([i \in 1..Len(df.rows) |->
                    Correction(df.rows[i], corrections_mode, corrections_column,
                               corrections_dict)])
    IN  IF \E i \in 1..Len(corrs) : corrs[i].KeyError
        THEN [KeyError |-> TRUE, df |-> df]
        ELSE [KeyError |-> FALSE,
              df |-> [cols |-> df.cols \cup {"ads_e"},
                      rows |-> AsList([i \in 1..Len(df.rows) |->
                          [c \in df.cols \cup {"ads_e"} |->
                              IF c = "ads_e"
                              THEN calc_ads_e(df.rows[i], bare_slab_e, corrs[i].corr,
                                              oxy_ref, hyd_ref)
                              ELSE df.rows[i][c]]])]]

\* the order pandas sorts the group keys in
SortRank(v) ==
    CASE v = "A" -> 1 [] v = "B" -> 2
      [] v = "hollow" -> 1 [] v = "top" -> 2
      [] v = "o" -> 1 [] v = "oh" -> 2 [] v = "ooh" -> 3
      [] OTHER -> 0

KeyOf(row, groupby) == AsList([i \in 1..Len(groupby) |-> row[groupby[i]]])

KeyLess(a, b) ==
    \E i \in 1..Len(a) :
        /\ \A j \in 1..(i - 1) : a[j] = b[j]
        /\ SortRank(a[i]) < SortRank(b[i])

RECURSIVE SortedKeys(_)
SortedKeys(K) ==
    IF K = {} THEN << >>
    ELSE LET m == CHOOSE a \in K : \A b \in K \ {a} : KeyLess(a, b)
         IN  << m >> \o SortedKeys(K \ {m})

\* df.groupby(groupby): the (key, table) pairs in sorted key order
GroupBy(df, groupby) ==
    LET keys == SortedKeys({ KeyOf(df.rows[i], groupby) : i \in 1..Len(df.rows) })
    IN  AsList([k \in 1..Len(keys) |->
            [key |-> keys[k],
             df |-> [cols |-> df.cols,
                     rows |-> SelectSeq(df.rows, LAMBDA r : KeyOf(r, groupby) = keys[k])]]])

\* list.remove(x) of a list that holds x once
ListRemove(lst, x) == SelectSeq(lst, LAMBDA y : y # x)

IdxMin_last(rows, col) ==
    CHOOSE i \in 1..Len(rows) :
        /\ \A j \in 1..Len(rows) : rows[i][col].v <= rows[j][col].v
        /\ \A j \in (i + 1)..Len(rows) : rows[i][col].v < rows[j][col].v

\* Series.idxmin(): the first row of the least value
IdxMin(rows, col) ==
    CHOOSE i \in 1..Len(rows) :
        /\ \A j \in 1..Len(rows) : rows[i][col].v <= rows[j][col].v
        /\ \A j \in 1..(i - 1) : rows[i][col].v < rows[j][col].v

\* df_i of lowest_e_path: the row of least ads_e of every adsorbate of a table
MinRows(df) ==
    LET ads == GroupBy(df, << "adsorbate" >>)
    IN  [cols |-> df.cols,
         rows |-> AsList([k \in 1..Len(ads) |->
                             ads[k].df.rows[IdxMin(ads[k].df.rows, "ads_e")]])]

\* data_master of lowest_e_path, in insertion order
LowestEDataMaster(df, jobs_variables, manual_props) ==
    LET groupby == ListRemove(ListRemove(jobs_variables, "site"), "adsorbate")
        groups == GroupBy(df, groupby)
    IN  IF groupby = << >>
        THEN << [key |-> << manual_props >>, df |-> MinRows(df)] >>
        ELSE AsList([k \in 1..Len(groups) |->
                        [key |-> groups[k].key, df |-> MinRows(groups[k].df)]])

AllStatesDataMaster_without_site(df, jobs_variables) ==
    GroupBy(df, ListRemove(ListRemove(jobs_variables, "adsorbate"), "site"))

\* data_master of plot_all_states, in insertion order
AllStatesDataMaster(df, jobs_variables) ==
    GroupBy(df, ListRemove(jobs_variables, "adsorbate"))

IdealSeries_no_bias(bias, color) ==
    create_plotly_series(NoneDf, ideal_energy, "Ideal", "Ideal", NoHoverText, color,
                         "full_lines", None)

\* dat_ideal of both functions
IdealSeries(bias, color) ==
    create_plotly_series(NoneDf, apply_bias(bias, ideal_energy), "Ideal", "Ideal",
                         NoHoverText, color, "full_lines", None)

RECURSIVE Flatten(_)
\* data_list after every dat_lst has been added with extend
Flatten(lsts) == IF lsts = << >> THEN << >> ELSE Head(lsts) \o Flatten(Tail(lsts))

----------------------------------------------------------------------------
(* Inputs *)

InputStates == {"ooh", "o", "oh", "bulk"}

EnergiesOf(s) ==
    CASE s = "ooh" -> {300, 369, 500}
      [] s = "o" -> {200, 246}
      [] s = "oh" -> {100, 123}
      [] s = "bulk" -> {0}

Biases == {-50, 0, 123}
ListCells == {NaN, Num(0), Num(123)}

Titles == { << "adsorbate", "ads_e" >>, << "state", "energy" >>,
            << "adsorbate", "energy" >>, << "state", "ads_e" >> }

InputRows(S, E) ==
    { [c \in {S, E} |-> IF c = S THEN se[1] ELSE Num(se[2])] :
        se \in UNION { {s} \X EnergiesOf(s) : s \in InputStates } }

InputTables(S, E) ==
    { [cols |-> {S, E}, rows |-> rs] :
        rs \in UNION { [1..n -> InputRows(S, E)] : n \in 0..MaxRows } }

\* rows of the tables the two lookups are applied to
LookupEnergiesOf(s) ==
    CASE s = "ooh" -> {NaN, Num(300)}
      [] s = "o" -> {Num(200), Num(246)}
      [] s = "oh" -> {Num(100)}
      [] OTHER -> {Num(0)}

LookupRows ==
    UNION { { [c \in {"adsorbate", "ads_e"} |-> IF c = "adsorbate" THEN s ELSE e] :
                e \in LookupEnergiesOf(s) } : s \in InputStates }

LookupTables ==
    { [cols |-> {"adsorbate", "ads_e"}, rows |-> rs] :
        rs \in UNION { [1..n -> LookupRows] : n \in 0..MaxLookupRows } }

Spacings == {0, DEFAULT_SPACING}
StepSizes == {DEFAULT_STEP_SIZE, 2 * DEFAULT_STEP_SIZE}
PlotModeArgs == PlotModes \cup {"lines_only"}

\* rows of the tables given to lowest_e_path and plot_all_states
AggRows ==
    { [c \in {"system", "site", "adsorbate", "ads_e"} |->
         CASE c = "system" -> r[1] [] c = "site" -> r[2]
           [] c = "adsorbate" -> r[3] [] OTHER -> Num(r[4])] :
      r \in ({"A"} \X {"top", "hollow"} \X {"oh"} \X {100, 150})
             \cup ({"A", "B"} \X {"top", "hollow"} \X {"ooh"} \X {300}) }

AggTables ==
    { [cols |-> {"system", "site", "adsorbate", "ads_e"}, rows |-> rs] :
        rs \in UNION { [1..n -> AggRows] : n \in 1..MaxAggRows } }

JobsVariables == { << "system", "site", "adsorbate" >>, << "site", "adsorbate" >> }

\* (bias, create_ideal_series)
AggOptions == { << 0, TRUE >>, << 123, TRUE >>, << 123, FALSE >> }

color_list == [i \in 1..(MaxAggRows + 2) |-> << "color", i >>]

\* rows of the tables of the instances whose methods are called in sequence
FrameRows ==
    { [adsorbate |-> r[1], ads_e |-> Num(r[2])] :
        r \in { << "ooh", 300 >>, << "ooh", 500 >>, << "o", 200 >>, << "oh", 100 >> } }

FrameTables ==
    { [cols |-> {"adsorbate", "ads_e"}, rows |-> rs] :
        rs \in UNION { [1..n -> FrameRows] : n \in 0..MaxFrameRows } }

\* tables that lack the state column, the free-energy column, or both
SchemaTables(S, E) ==
    UNION { { [cols |-> cs, rows |-> rs] :
                rs \in UNION { [1..n -> { [c \in cs |-> r[c]] : r \in InputRows(S, E) }] :
                                 n \in 0..MaxRows } } :
            cs \in (SUBSET {S, E}) \ {{S, E}} }

ArgLists == UNION { [1..n -> ListCells] : n \in 0..MaxList }

----------------------------------------------------------------------------
(* Actions *)

Init ==
    /\ pc = "new"
    /\ err = "none"
    /\ free_energy_df = NoneDf
    /\ state_title = "adsorbate"
    /\ fe_title = "ads_e"
    /\ fe_df_bulk = NoneDf
    /\ fe_df = NoneDf
    /\ num_of_states = 0
    /\ energy_lst = << >>
    /\ overpotential = Unset
    /\ limiting_step = << >>
    /\ energy_lst_h2o2 = << >>
    /\ overpotential_h2o2 = Unset
    /\ ret = NoCall

\* df[self.state_title] in fill_missing_data on a table without that column
FillKeyError(df, S) == S \notin df.cols

\* df_state.iloc[0][self.fe_title] in rxn_energy_lst on a table without that column
PathKeyError(df, E) == E \notin df.cols

\* __init__ up to the KeyError raised by fill_missing_data
ConstructFillKeyError(df, S, E, df1) ==
    /\ pc' = "failed"
    /\ err' = "KeyError"
    /\ free_energy_df' = df
    /\ state_title' = S
    /\ fe_title' = E
    /\ fe_df_bulk' = df1
    /\ fe_df' = df1
    /\ UNCHANGED << num_of_states, energy_lst, overpotential, limiting_step,
                    energy_lst_h2o2, overpotential_h2o2, ret >>

\* __init__ up to the KeyError raised by rxn_energy_lst
ConstructPathKeyError(df, S, E, df1, df2) ==
    /\ pc' = "failed"
    /\ err' = "KeyError"
    /\ free_energy_df' = df
    /\ state_title' = S
    /\ fe_title' = E
    /\ fe_df_bulk' = df1
    /\ fe_df' = df2
    /\ num_of_states' = Len(df2.rows) + 1
    /\ UNCHANGED << energy_lst, overpotential, limiting_step,
                    energy_lst_h2o2, overpotential_h2o2, ret >>

\* __init__(free_energy_df=df, state_title=S, free_e_title=E), df not None
Construct(df, S, E) ==
    \E df1 \in {add_bulk_entry(df, Num(0))} :
    IF FillKeyError(df1, S) THEN ConstructFillKeyError(df, S, E, df1) ELSE
    \E df2 \in {fill_missing_data(df1, S, E)} :
    IF PathKeyError(df2, E) THEN ConstructPathKeyError(df, S, E, df1, df2) ELSE
    \E e_lst \in {rxn_energy_lst(df2, S, E)} :
    \E op \in {calc_overpotential(e_lst)} :
        /\ free_energy_df' = df
        /\ state_title' = S
        /\ fe_title' = E
        /\ fe_df_bulk' = df1
        /\ fe_df' = df2
        /\ num_of_states' = Len(df2.rows) + 1
        /\ energy_lst' = e_lst
        /\ overpotential' = op[1]
        /\ limiting_step' = op[2]
        /\ IF H2O2ValueError(df2)
           THEN /\ pc' = "failed"
                /\ err' = "ValueError"
                /\ UNCHANGED << energy_lst_h2o2, overpotential_h2o2 >>
           ELSE /\ energy_lst_h2o2' = rxn_energy_lst_h2o2(df2)
                /\ IF H2O2IndexError(df2)
                   THEN /\ pc' = "failed"
                        /\ err' = "IndexError"
                        /\ UNCHANGED overpotential_h2o2
                   ELSE /\ pc' = "ready"
                        /\ err' = "none"
                        /\ overpotential_h2o2' = calc_overpotential_h2o2(df2)
        /\ UNCHANGED ret

ConstructCall ==
    /\ pc = "new"
    /\ \E t \in Titles : \E df \in InputTables(t[1], t[2]) : Construct(df, t[1], t[2])

\* __init__() with free_energy_df=None: only the attributes of lines 48-54 are set
ConstructBare ==
    /\ pc = "new"
    /\ pc' = "bare"
    /\ UNCHANGED << err, free_energy_df, state_title, fe_title, fe_df_bulk, fe_df,
                    num_of_states, energy_lst, overpotential, limiting_step,
                    energy_lst_h2o2, overpotential_h2o2, ret >>

attrs == << free_energy_df, state_title, fe_title, fe_df_bulk, fe_df,
            num_of_states, energy_lst, overpotential, limiting_step,
            energy_lst_h2o2, overpotential_h2o2 >>

\* self.apply_bias(bias, energy_list)
ApplyBias ==
    /\ pc \in {"ready", "bare"}
    /\ \E bias \in Biases :
       \E energy_list \in (IF pc = "bare" THEN ArgLists
                           ELSE {energy_lst, ideal_energy, energy_lst_h2o2}) :
          ret' = [op |-> "apply_bias", bias |-> bias, arg |-> energy_list,
                  arg_after |-> list_after_apply_bias(bias, energy_list),
                  val |-> apply_bias(bias, energy_list)]
    /\ err' = "none"
    /\ UNCHANGED << pc, attrs >>

\* self.calc_overpotential()
CalcOverpotential ==
    /\ pc = "ready"
    /\ ret' = [op |-> "calc_overpotential", val |-> calc_overpotential(energy_lst)]
    /\ err' = "none"
    /\ UNCHANGED << pc, attrs >>

\* self.rxn_energy_lst()
RxnEnergyLst ==
    /\ pc \in {"ready", "table"}
    /\ ret' = [op |-> "rxn_energy_lst",
               val |-> rxn_energy_lst(fe_df, state_title, fe_title)]
    /\ err' = "none"
    /\ UNCHANGED << pc, attrs >>

\* self.rxn_energy_lst_h2o2()
RxnEnergyLstH2O2 ==
    /\ pc = "ready"
    /\ IF H2O2ValueError(fe_df)
       THEN /\ err' = "ValueError"
            /\ ret' = [op |-> "rxn_energy_lst_h2o2", val |-> << >>]
       ELSE /\ err' = "none"
            /\ ret' = [op |-> "rxn_energy_lst_h2o2", val |-> rxn_energy_lst_h2o2(fe_df)]
    /\ UNCHANGED << pc, attrs >>

\* self.calc_overpotential_h2o2()
CalcOverpotentialH2O2 ==
    /\ pc \in {"ready", "table"}
    /\ IF H2O2IndexError(fe_df)
       THEN /\ err' = "IndexError"
            /\ ret' = [op |-> "calc_overpotential_h2o2", val |-> Unset]
       ELSE /\ err' = "none"
            /\ ret' = [op |-> "calc_overpotential_h2o2",
                       val |-> calc_overpotential_h2o2(fe_df)]
    /\ UNCHANGED << pc, attrs >>

Next ==
    \/ ConstructCall
    \/ ConstructBare
    \/ ApplyBias
    \/ CalcOverpotential
    \/ RxnEnergyLst
    \/ RxnEnergyLstH2O2
    \/ CalcOverpotentialH2O2

Spec == Init /\ [][Next]_vars

\* __init__ on a table that lacks a required column
ConstructSchemaCall ==
    /\ pc = "new"
    /\ \E t \in Titles : \E df \in SchemaTables(t[1], t[2]) : Construct(df, t[1], t[2])

NextSchema ==
    \/ ConstructSchemaCall
    \/ RxnEnergyLst
    \/ CalcOverpotential

SpecSchema == Init /\ [][NextSchema]_vars

\* self.create_rxn_coord_array(rxn_steps, spacing, step_size)
CreateRxnCoordArray ==
    /\ pc \in {"ready", "bare"}
    /\ \E rxn_steps \in 0..MaxSteps : \E spacing \in Spacings : \E step_size \in StepSizes :
          ret' = [op |-> "create_rxn_coord_array", rxn_steps |-> rxn_steps,
                  spacing |-> spacing, step_size |-> step_size,
                  val |-> create_rxn_coord_array(rxn_steps, spacing, step_size)]
    /\ err' = "none"
    /\ UNCHANGED << pc, attrs >>

\* self.convert_to_plotting_list(energy_lst, spacing, step_size)
ConvertToPlottingList ==
    /\ pc \in {"ready", "bare"}
    /\ \E energy_list \in (IF pc = "bare" THEN ArgLists ELSE {energy_lst, ideal_energy}) :
       \E spacing \in Spacings : \E step_size \in StepSizes :
          ret' = [op |-> "convert_to_plotting_list", energy_lst |-> energy_list,
                  spacing |-> spacing, step_size |-> step_size,
                  val |-> convert_to_plotting_list(energy_list, spacing, step_size)]
    /\ err' = "none"
    /\ UNCHANGED << pc, attrs >>

\* self.create_plotly_series(energy_lst, plot_mode=plot_mode)
CreatePlotlySeries ==
    /\ pc \in {"ready", "bare"}
    /\ \E energy_list \in (IF pc = "bare" THEN ArgLists ELSE {energy_lst, ideal_energy}) :
       \E plot_mode \in PlotModeArgs :
          IF PlotModeUnboundLocalError(plot_mode)
          THEN /\ ret' = [op |-> "create_plotly_series", energy_lst |-> energy_list,
                          plot_mode |-> plot_mode, val |-> << >>]
               /\ err' = "UnboundLocalError"
          ELSE /\ ret' = [op |-> "create_plotly_series", energy_lst |-> energy_list,
                          plot_mode |-> plot_mode,
                          val |-> create_plotly_series(fe_df, energy_list, "TEMP",
                                      "group1", NoHoverText, "rgb(22, 96, 167)",
                                      plot_mode, None)]
               /\ err' = "none"
    /\ UNCHANGED << pc, attrs >>

NextPlot ==
    \/ ConstructBare
    \/ CreateRxnCoordArray
    \/ ConvertToPlottingList
    \/ CreatePlotlySeries

SpecPlot == Init /\ [][NextPlot]_vars

\* __init__ with the default titles
ConstructFrameCall ==
    /\ pc = "new"
    /\ \E df \in FrameTables : Construct(df, "adsorbate", "ads_e")

\* self.plot_fed_series(bias=bias, hover_text_col="adsorbate", plot_mode=plot_mode)
PlotFedSeries ==
    /\ pc = "ready"
    /\ \E bias \in Biases : \E plot_mode \in PlotModes :
       \E ORR \in {[fe_df |-> fe_df, energy_lst |-> energy_lst,
                     overpotential |-> overpotential]} :
          /\ ret' = [op |-> "plot_fed_series", bias |-> bias, plot_mode |-> plot_mode,
                     val |-> plot_fed_series(ORR, bias, None, None, << "red" >>, 0,
                                             "adsorbate", plot_mode, None)]
          /\ energy_lst' = energy_lst_after_plot_fed_series(energy_lst, bias)
    /\ err' = "none"
    /\ UNCHANGED << pc, free_energy_df, state_title, fe_title, fe_df_bulk, fe_df,
                    num_of_states, overpotential, limiting_step, energy_lst_h2o2,
                    overpotential_h2o2 >>

PlotTitles == {"FED", "ORR"}
FontSizes == {16, 18}

\* plotly_fed_layout(plot_title, tick_lab_size = tick_lab_size), a function of
\* the module
PlotlyFedLayout ==
    /\ \E plot_title \in PlotTitles : \E tick_lab_size \in FontSizes :
          ret' = [op |-> "plotly_fed_layout",
                  val |-> plotly_fed_layout(plot_title, 18, tick_lab_size, 18, 18)]
    /\ err' = "none"
    /\ UNCHANGED << pc, attrs >>

NextFrame ==
    \/ ConstructFrameCall
    \/ ApplyBias
    \/ PlotFedSeries
    \/ CreatePlotlySeries
    \/ PlotlyFedLayout

SpecFrame == Init /\ [][NextFrame]_vars

\* the tables the smart_format calls are made on: each of ooh, o, oh absent or
\* in system A or B, and one table without a system column
FormatStates == << "ooh", "o", "oh" >>

FormatTables ==
    { [cols |-> {"adsorbate", "ads_e", "system"},
       rows |-> SelectSeq([i \in 1..3 |-> [adsorbate |-> FormatStates[i],
                                           ads_e |-> Num(100 * (4 - i)),
                                           system |-> f[i]]],
                          LAMBDA r : r["system"] # "absent")] :
      f \in [1..3 -> {"absent", "A", "B"}] }
    \cup { [cols |-> {"adsorbate", "ads_e"},
            rows |-> [i \in 1..3 |-> [adsorbate |-> FormatStates[i],
                                      ads_e |-> Num(100 * (4 - i))]]] }

\* smart_format entries [{df_col_name: value_i}, {setting_name: setting_value}]
FormatRules ==
    { [df_col_name |-> r[1], value_i |-> r[2], setting_name |-> r[3], setting_value |-> r[4]] :
      r \in { << "system", "A", "dash", "dot" >>, << "system", "A", "dash", "dashdot" >>,
              << "system", "A", "color", "blue" >>, << "spinpol", "A", "dash", "dot" >> } }

SmartFormats ==
    { [rules |-> rs] : rs \in UNION { [1..n -> FormatRules] : n \in 0..MaxRules } }

ConstructFormatCall ==
    /\ pc = "new"
    /\ \E df \in FormatTables : Construct(df, "adsorbate", "ads_e")

\* self.plot_fed_series(smart_format=smart_format)
PlotFedSeriesSmartFormat ==
    /\ pc = "ready"
    /\ \E smart_format \in SmartFormats \cup {None} :
       \E ORR \in {[fe_df |-> fe_df, energy_lst |-> energy_lst,
                     overpotential |-> overpotential]} :
          ret' = [op |-> "plot_fed_series", smart_format |-> smart_format,
                  val |-> plot_fed_series(ORR, 0, None, None, << "red" >>, 0,
                                          "adsorbate", "all", smart_format)]
    /\ err' = "none"
    /\ UNCHANGED << pc, attrs >>

NextFormat ==
    \/ ConstructFormatCall
    \/ PlotFedSeriesSmartFormat

SpecFormat == Init /\ [][NextFormat]_vars

\* rows of the tables given to df_calc_adsorption_e
AdsRows ==
    { [c \in {"adsorbate", "elec_energy", "gibbs_correction"} |->
         CASE c = "adsorbate" -> r[1] [] c = "elec_energy" -> Num(r[2])
           [] OTHER -> Num(r[3])] :
      r \in {"ooh", "o", "oh"} \X {-1000} \X {0, 30} }

AdsTables ==
    { [cols |-> {"adsorbate", "elec_energy", "gibbs_correction"}, rows |-> rs] :
        rs \in UNION { [1..n -> AdsRows] : n \in 1..MaxAdsRows } }

CorrectionsModes == {"df_column", "corr_dict", "none"}

CorrectionsDicts == {None, [ooh |-> 40], [ooh |-> 40, o |-> 5, oh |-> 35]}

InitAds ==
    /\ pc = "module"
    /\ err = "none"
    /\ free_energy_df = NoneDf
    /\ state_title = "adsorbate"
    /\ fe_title = "ads_e"
    /\ fe_df_bulk = NoneDf
    /\ fe_df = NoneDf
    /\ num_of_states = Unset
    /\ energy_lst = << >>
    /\ overpotential = Unset
    /\ limiting_step = Unset
    /\ energy_lst_h2o2 = << >>
    /\ overpotential_h2o2 = Unset
    /\ ret \in { [op |-> "none", df |-> df] : df \in AdsTables }

\* df_calc_adsorption_e(df, oxy_ref, hyd_ref, bare_slab_e, corrections_mode =
\* corrections_mode, corrections_dict = corrections_dict)
DfCalcAdsorptionE ==
    /\ pc = "module"
    /\ \E corrections_mode \in CorrectionsModes :
       \E corrections_dict \in CorrectionsDicts :
       \E r \in {df_calc_adsorption_e(ret.df, OXY_REF, HYD_REF, BARE_SLAB_E, corrections_mode,
                                       "gibbs_correction", corrections_dict)} :
          /\ ret' = [op |-> "df_calc_adsorption_e", arg |-> ret.df, df |-> r.df,
                     corrections_mode |-> corrections_mode,
                     corrections_dict |-> corrections_dict]
          /\ err' = IF r.KeyError THEN "KeyError" ELSE "none"
    /\ pc' = "returned"
    /\ UNCHANGED attrs

NextAds == DfCalcAdsorptionE

SpecAds == InitAds /\ [][NextAds]_vars

\* the state before a module function is called on a table df
InitAgg ==
    /\ pc = "module"
    /\ err = "none"
    /\ free_energy_df = NoneDf
    /\ state_title = "adsorbate"
    /\ fe_title = "ads_e"
    /\ fe_df_bulk = NoneDf
    /\ fe_df = NoneDf
    /\ num_of_states = Unset
    /\ energy_lst = << >>
    /\ overpotential = Unset
    /\ limiting_step = Unset
    /\ energy_lst_h2o2 = << >>
    /\ overpotential_h2o2 = Unset
    /\ ret \in { [op |-> "none", df |-> df] : df \in AggTables }

\* the loop over data_master and the ideal series, common to both functions
PlotGroups(op, df, jobs_variables, bias, create_ideal_series, data_master, hover_text_col, plot_mode, ideal_color) ==
    \E ORRs \in {AsList([k \in 1..Len(data_master) |->
                              ORR_Free_E_Plot(data_master[k].df)])} :
        IF \E k \in 1..Len(ORRs) : ORRs[k].ValueError
        THEN /\ ret' = [op |-> op, df |-> df, jobs_variables |-> jobs_variables,
                        bias |-> bias, create_ideal_series |-> create_ideal_series,
                        data_master |-> data_master, energy_lsts |-> << >>,
                        val |-> << >>]
             /\ err' = "ValueError"
        ELSE /\ ret' = [op |-> op, df |-> df, jobs_variables |-> jobs_variables,
                        bias |-> bias, create_ideal_series |-> create_ideal_series,
                        data_master |-> data_master,
                        energy_lsts |-> [k \in 1..Len(ORRs) |-> ORRs[k].energy_lst],
                        val |-> Flatten(AsList([k \in 1..Len(ORRs) |->
                                    plot_fed_series(ORRs[k], bias, "opt",
                                        data_master[k].key, color_list, k - 1,
                                        hover_text_col, plot_mode, None)]))
                                \o (IF create_ideal_series
                                    THEN IdealSeries(bias, ideal_color) ELSE << >>)]
             /\ err' = "none"

\* lowest_e_path(df, jobs_variables, color_list, create_ideal_series, opt_name, bias)
LowestEPath ==
    /\ pc = "module"
    /\ \E jobs_variables \in JobsVariables : \E o \in AggOptions :
       \E data_master \in {LowestEDataMaster(ret.df, jobs_variables, "*TEMP*")} :
          PlotGroups("lowest_e_path", ret.df, jobs_variables, o[1], o[2], data_master,
                     "site", "all", PyItem(color_list, -1))
    /\ pc' = "returned"
    /\ UNCHANGED attrs

\* plot_all_states(df, jobs_variables, color_list, bias, create_ideal_series)
PlotAllStates ==
    /\ pc = "module"
    /\ \E jobs_variables \in JobsVariables : \E o \in AggOptions :
       \E data_master \in {AllStatesDataMaster(ret.df, jobs_variables)} :
          PlotGroups("plot_all_states", ret.df, jobs_variables, o[1], o[2], data_master,
                     "site", "states_only", "red")
    /\ pc' = "returned"
    /\ UNCHANGED attrs

NextAgg ==
    \/ LowestEPath
    \/ PlotAllStates

SpecAgg == InitAgg /\ [][NextAgg]_vars

\* an instance whose fe_df is a given table: the lookups as functions of the table
InitLookup ==
    /\ pc = "table"
    /\ err = "none"
    /\ free_energy_df = NoneDf
    /\ state_title = "adsorbate"
    /\ fe_title = "ads_e"
    /\ fe_df_bulk = NoneDf
    /\ fe_df \in LookupTables
    /\ num_of_states = Unset
    /\ energy_lst = << >>
    /\ overpotential = Unset
    /\ limiting_step = Unset
    /\ energy_lst_h2o2 = << >>
    /\ overpotential_h2o2 = Unset
    /\ ret = NoCall

\* self.property_list(column_name)
PropertyList ==
    /\ pc \in {"ready", "table"}
    /\ \E column_name \in fe_df.cols :
        IF PropertyListIndexError(fe_df, state_title)
        THEN /\ ret' = [op |-> "property_list", column_name |-> column_name, val |-> << >>]
             /\ err' = "IndexError"
        ELSE /\ ret' = [op |-> "property_list", column_name |-> column_name,
                        val |-> property_list(fe_df, state_title, column_name)]
             /\ err' = "none"
    /\ UNCHANGED << pc, attrs >>

NextLookup ==
    \/ RxnEnergyLst
    \/ PropertyList
    \/ CalcOverpotentialH2O2

SpecLookup == InitLookup /\ [][NextLookup]_vars

----------------------------------------------------------------------------
(* Properties *)

\* __init__ has run on a table (to completion, or up to the exception it raised)
Constructed == pc \in {"ready", "failed"}

DefaultTitles == state_title = "adsorbate" /\ fe_title = "ads_e"

RowsWith(df, col, val) ==
    IF col \in df.cols THEN { i \in 1..Len(df.rows) : df.rows[i][col] = val } ELSE {}

CountRows(df, col, val) == Cardinality(RowsWith(df, col, val))

FirstRow(df, col, val) ==
    CHOOSE i \in RowsWith(df, col, val) : \A j \in RowsWith(df, col, val) : i <= j

\* the energy the table stores for a state: that of the first row of the state
Stored(df, state) == df.rows[FirstRow(df, state_title, state)][fe_title]

Adsorbates == {"ooh", "o", "oh"}

InputCovers(state) == RowsWith(free_energy_df, state_title, state) # {}

Numeric(lst) == \A i \in 1..Len(lst) : ~lst[i].nan

Step(lst, i) == EQ_POT + lst[i + 1].v - lst[i].v

InputRow(state, e) == [adsorbate |-> state, ads_e |-> Num(e)]

\* C1: for an input table with a row for each of ooh, o and oh the path has 5
\* entries aligned to [bulk, ooh, o, oh, bulk]; entry 0 is the table's bulk
\* energy + 4.92 and entries 1..4 are the table's stored energies of ooh, o, oh
\* and bulk, unmodified (those of the input rows for ooh, o, oh; 4.92 and 0.0
\* at the two ends when the caller's table has no bulk row).
C1_PathFromTable ==
    (Constructed /\ \A s \in Adsorbates : InputCovers(s)) =>
        /\ Len(energy_lst) = 5
        /\ energy_lst[1] = FAdd(Stored(fe_df, "bulk"), Num(O2_REF))
        /\ \A k \in 2..5 : energy_lst[k] = Stored(fe_df, rxn_mech_states[k])
        /\ \A k \in 2..4 : energy_lst[k] = Stored(free_energy_df, rxn_mech_states[k])
        /\ (DefaultTitles /\ ~InputCovers("bulk")) =>
              (energy_lst[1] = Num(492) /\ energy_lst[5] = Num(0))

C1_Witness ==
    /\ pc = "ready"
    /\ DefaultTitles
    /\ \A s \in Adsorbates : InputCovers(s)
    /\ energy_lst = << Num(492), Num(369), Num(200), Num(123), Num(0) >>

\* C2: on a fully numeric 5-state path the overpotential is the maximum of the
\* four steps 1.23 + path[i+1] - path[i], and the limiting step is the pair of
\* states around the lowest index that attains the maximum.
C2_MaxStepFirstArgmax ==
    (Constructed /\ Numeric(energy_lst)) =>
        \E i \in 1..4 :
            /\ overpotential = Num(Step(energy_lst, i))
            /\ \A j \in 1..4 : Step(energy_lst, j) <= Step(energy_lst, i)
            /\ \A j \in 1..(i - 1) : Step(energy_lst, j) < Step(energy_lst, i)
            /\ limiting_step = << rxn_mech_states[i], rxn_mech_states[i + 1] >>
            /\ (ret.op = "calc_overpotential") =>
                   ret.val = << overpotential, limiting_step >>

C2_Witness ==
    /\ pc = "ready"
    /\ Numeric(energy_lst)
    /\ ret.op = "calc_overpotential"
    /\ limiting_step = << "o", "oh" >>
    /\ Step(energy_lst, 3) = Step(energy_lst, 4)
    /\ Step(energy_lst, 3) > Step(energy_lst, 2)

C3Rows == { InputRow("ooh", 300), InputRow("o", 200), InputRow("oh", 100) }

C3Input(rows) ==
    /\ DefaultTitles
    /\ Len(free_energy_df.rows) = Cardinality(rows)
    /\ { free_energy_df.rows[i] : i \in 1..Len(free_energy_df.rows) } = rows

C3Result ==
    /\ pc = "ready"
    /\ energy_lst = << Num(492), Num(300), Num(200), Num(100), Num(0) >>
    /\ \A i \in 1..4 : Step(energy_lst, i) = << -69, 23, 23, 23 >>[i]
    /\ overpotential = Num(23)
    /\ limiting_step = << "ooh", "o" >>

\* C3 as stated: the input rows {ooh: 3.0, o: 2.0, oh: 1.0, bulk: 0.0} construct
\* the diagram with path [4.92, 3.0, 2.0, 1.0, 0.0], steps [-0.69, 0.23, 0.23,
\* 0.23], overpotential 0.23 and limiting step (ooh, o).
C3_Original ==
    (Constructed /\ C3Input(C3Rows \cup {InputRow("bulk", 0)})) => C3Result

\* C3 amended: the input rows {ooh: 3.0, o: 2.0, oh: 1.0}, in any order and
\* without a bulk row (the constructor appends bulk = 0.0 itself), construct
\* the diagram with path [4.92, 3.0, 2.0, 1.0, 0.0], steps [-0.69, 0.23, 0.23,
\* 0.23], overpotential 0.23 and limiting step (ooh, o), the first of the tied
\* steps; with the bulk row also in the input the constructor raises ValueError.
C3_Scenario ==
    /\ (Constructed /\ C3Input(C3Rows)) => C3Result
    /\ (Constructed /\ C3Input(C3Rows \cup {InputRow("bulk", 0)})) =>
           (pc = "failed" /\ err = "ValueError")

C3_Witness ==
    /\ C3Input(C3Rows)
    /\ pc = "ready"
    /\ limiting_step = << "ooh", "o" >>
    /\ free_energy_df.rows[1] = InputRow("oh", 100)

\* C4: the overpotential of the ideal path [4.92, 3.69, 2.46, 1.23, 0] (the
\* table ooh = 3.69, o = 2.46, oh = 1.23, bulk = 0) is exactly 0, every one of
\* its four steps being 0.
C4_IdealZero ==
    (Constructed /\ energy_lst = ideal_energy) =>
        /\ overpotential = Num(0)
        /\ \A i \in 1..4 : Step(energy_lst, i) = 0
        /\ (ret.op = "calc_overpotential") => ret.val[1] = Num(0)

C4_Witness ==
    /\ pc = "ready"
    /\ energy_lst = ideal_energy
    /\ Stored(free_energy_df, "ooh") = Num(369)
    /\ ret.op = "calc_overpotential"

\* C5: apply_bias(b, path) returns a list of the length n of path whose entry
\* i (0-based) is path[i] - (n - 1 - i) * b; the last entry is the path's last
\* entry at every bias, and at b = 0 the result equals the path.
C5_ApplyBias ==
    (ret.op = "apply_bias") =>
        LET n == Len(ret.arg)
        IN  /\ Len(ret.val) = n
            /\ \A i \in 1..n :
                  ret.val[i] = (IF ret.arg[i].nan THEN NaN
                                ELSE Num(ret.arg[i].v - (n - i) * ret.bias))
            /\ (n > 0) => ret.val[n] = ret.arg[n]
            /\ (ret.bias = 0) => ret.val = ret.arg

C5_Witness ==
    /\ pc = "ready"
    /\ ret.op = "apply_bias"
    /\ ret.bias = 123
    /\ ret.arg = energy_lst
    /\ Numeric(ret.arg)
    /\ ret.val[1] = Num(0)

C7_IncompletePathFails ==
    (Constructed /\ DefaultTitles /\ ~Numeric(energy_lst)) =>
        /\ pc = "failed"
        /\ err = "IncompletePathError"
        /\ overpotential = Unset
        /\ limiting_step = << >>

\* C8: building the 2-electron path raises exactly when the rows whose
\* adsorbate is bulk or ooh do not number exactly 2; with exactly one bulk row
\* and one ooh row it returns a 3-element list whose last element is 3.52.
C8_H2O2Length ==
    LET n == CountRows(fe_df, "adsorbate", "bulk") + CountRows(fe_df, "adsorbate", "ooh")
        one_each == /\ CountRows(fe_df, "adsorbate", "bulk") = 1
                    /\ CountRows(fe_df, "adsorbate", "ooh") = 1
    IN  /\ Constructed =>
              /\ (pc = "failed" /\ err = "ValueError") <=> (n # 2)
              /\ one_each =>
                    /\ pc = "ready"
                    /\ Len(energy_lst_h2o2) = 3
                    /\ energy_lst_h2o2[3] = Num(352)
        /\ (ret.op = "rxn_energy_lst_h2o2") =>
              /\ (err = "ValueError") <=> (n # 2)
              /\ one_each => (Len(ret.val) = 3 /\ ret.val[3] = Num(352))

C8_Witness ==
    /\ pc = "failed"
    /\ err = "ValueError"
    /\ DefaultTitles
    /\ CountRows(fe_df, "adsorbate", "ooh") = 2
    /\ CountRows(fe_df, "adsorbate", "bulk") = 1

C8_WitnessTooFew ==
    /\ pc = "failed"
    /\ err = "ValueError"
    /\ CountRows(fe_df, "adsorbate", "ooh") = 0
    /\ CountRows(fe_df, "adsorbate", "bulk") = 1

NoDuplicateStates(df) ==
    \A s \in InputStates : CountRows(df, state_title, s) <= 1

\* C9: after fill_missing_data on a table without duplicate state rows (a
\* table without a bulk row included) the table holds exactly one row for each
\* of bulk, ooh, o, oh; every inserted row carries the missing marker as its
\* energy and the rows that were there before are unchanged.
C9_FillExactlyOne ==
    (Constructed /\ NoDuplicateStates(fe_df_bulk)) =>
        LET n == Len(fe_df_bulk.rows)
        IN  /\ \A s \in InputStates : CountRows(fe_df, state_title, s) = 1
            /\ \A i \in 1..n : \A c \in fe_df_bulk.cols :
                  fe_df.rows[i][c] = fe_df_bulk.rows[i][c]
            /\ \A i \in (n + 1)..Len(fe_df.rows) : fe_df.rows[i][fe_title] = NaN

\* C10 as stated: add_bulk_entry appends the bulk row only if the table has
\* none: a table that already has a bulk row is left unchanged, and a
\* constructed table never has two bulk rows.
C10_Original ==
    (Constructed /\ DefaultTitles) =>
        /\ InputCovers("bulk") => fe_df_bulk = free_energy_df
        /\ CountRows(fe_df, "adsorbate", "bulk") <= 1

\* C10 amended: add_bulk_entry always appends exactly one row {adsorbate: bulk,
\* ads_e: 0.0 by default} after the rows of the table, which stay as they
\* were, whether or not a bulk row is present; a table that already has a bulk
\* row gets a second one, on which the constructor raises ValueError, so a
\* table whose construction completed has exactly one bulk row.
C10_AlwaysAppends ==
    Constructed =>
        LET n == Len(free_energy_df.rows)
        IN  /\ Len(fe_df_bulk.rows) = n + 1
            /\ fe_df_bulk.rows[n + 1]["adsorbate"] = "bulk"
            /\ fe_df_bulk.rows[n + 1]["ads_e"] = Num(0)
            /\ \A i \in 1..n : \A c \in free_energy_df.cols :
                  fe_df_bulk.rows[i][c] = free_energy_df.rows[i][c]
            /\ CountRows(fe_df_bulk, "adsorbate", "bulk")
                  = CountRows(free_energy_df, "adsorbate", "bulk") + 1
            /\ (CountRows(free_energy_df, "adsorbate", "bulk") > 0) =>
                  (pc = "failed" /\ err = "ValueError")
            /\ (pc = "ready") => CountRows(fe_df, "adsorbate", "bulk") = 1

C10_Witness ==
    /\ pc = "failed"
    /\ DefaultTitles
    /\ InputCovers("bulk")
    /\ \A s \in Adsorbates : InputCovers(s)
    /\ CountRows(fe_df_bulk, "adsorbate", "bulk") = 2

Absent(state) == RowsWith(fe_df, state_title, state) = {}

MechStates == {"bulk", "ooh", "o", "oh"}

LookupDone == pc = "table" /\ ret.op \in {"rxn_energy_lst", "property_list"}

C11_WitnessFailure ==
    /\ pc = "table"
    /\ ret.op = "property_list"
    /\ Absent("oh")
    /\ err = "IndexError"

\* the k-th element of a list, k counted from 0
At(lst, k) == lst[k + 1]

\* C13: for an energy list of N >= 1 states convert_to_plotting_list returns an
\* x sequence of exactly 2N positions and a y sequence of exactly 2N values
\* with y[2k] = y[2k+1] = energy[k] for every k in [0, N).
C13_Doubling ==
    (ret.op = "convert_to_plotting_list" /\ Len(ret.energy_lst) >= 1) =>
        LET N == Len(ret.energy_lst)
            x == ret.val[1]
            y == ret.val[2]
        IN  /\ Len(x) = 2 * N
            /\ Len(y) = 2 * N
            /\ \A k \in 0..(N - 1) :
                  /\ At(y, 2 * k) = At(ret.energy_lst, k)
                  /\ At(y, 2 * k + 1) = At(ret.energy_lst, k)

\* a list of three states with three different cells has been doubled
C13_Witness ==
    /\ ret.op = "convert_to_plotting_list"
    /\ ret.energy_lst = << Num(123), NaN, Num(0) >>
    /\ ret.val[2] = << Num(123), Num(123), NaN, NaN, Num(0), Num(0) >>

\* C14: for step size d > 0, spacing s >= 0 and N >= 1 states the x sequence of
\* create_rxn_coord_array starts at 0, never decreases, and state k spans
\* k*(d+s) to k*(d+s)+d; N = 3, s = 0, d = 1 gives [0, 1, 1, 2, 2, 3].
C14_Coordinates ==
    (ret.op = "create_rxn_coord_array" /\ ret.rxn_steps >= 1
        /\ ret.step_size > 0 /\ ret.spacing >= 0) =>
        LET N == ret.rxn_steps
            d == ret.step_size
            sp == ret.spacing
            x == ret.val
        IN  /\ Len(x) = 2 * N
            /\ x[1] = 0
            /\ \A i \in 1..(Len(x) - 1) : x[i] <= x[i + 1]
            /\ \A k \in 0..(N - 1) :
                  /\ At(x, 2 * k) = k * (d + sp)
                  /\ At(x, 2 * k + 1) = k * (d + sp) + d
            /\ (N = 3 /\ sp = 0 /\ d = DEFAULT_STEP_SIZE) =>
                  x = << 0, 10, 10, 20, 20, 30 >>

\* the array of three states with a spacing between them has been built
C14_Witness ==
    /\ ret.op = "create_rxn_coord_array"
    /\ ret.rxn_steps = 3 /\ ret.spacing = DEFAULT_SPACING
    /\ ret.step_size = DEFAULT_STEP_SIZE
    /\ ret.val = << 0, 10, 15, 25, 30, 40 >>

\* the array of the example (N = 3, s = 0, d = 1) has been built
C14_WitnessExample ==
    /\ ret.op = "create_rxn_coord_array"
    /\ ret.rxn_steps = 3 /\ ret.spacing = 0 /\ ret.step_size = DEFAULT_STEP_SIZE
    /\ ret.val = << 0, 10, 10, 20, 20, 30 >>

SeriesDone == ret.op = "create_plotly_series" /\ err = "none"

\* the series of create_plotly_series drawn as lines (the first of the result)
LineSeries == ret.val[1]

\* the hover-marker series (the last of the result)
MarkerSeries == ret.val[Len(ret.val)]

\* the doubled sequences create_plotly_series starts from
Doubled == convert_to_plotting_list(ret.energy_lst, DEFAULT_SPACING, DEFAULT_STEP_SIZE)

\* a sequence without the entries at the positions where y is a break
WithoutBreaks(lst, y) ==
    LET keep == { i \in 1..Len(y) : y[i] # None }
        nth(n) == CHOOSE i \in keep : Cardinality({ j \in keep : j < i }) = n - 1
    IN  [n \in 1..Cardinality(keep) |-> lst[nth(n)]]

\* position p of the broken series is a break: a missing y at a repeat of the
\* preceding x position
IsBreak(x, y, p) == p \in 2..Len(y) /\ y[p] = None /\ x[p] = x[p - 1]

\* C15 as stated: in the broken step series a break follows the flat segment of
\* every one of the N states.
C15_Original ==
    (SeriesDone /\ Len(ret.energy_lst) >= 1) =>
        LET N == Len(ret.energy_lst)
            x == LineSeries.x
            y == LineSeries.y
        IN  \A k \in 1..N : IsBreak(x, y, 3 * k)

\* C15: in the broken step series a break follows the flat segment of every
\* state but the last (N - 1 breaks for N states); x and y have the same length;
\* removing the breaks gives back the doubled x and y sequences.
C15_Breaks ==
    (SeriesDone /\ Len(ret.energy_lst) >= 1) =>
        LET N == Len(ret.energy_lst)
            x == LineSeries.x
            y == LineSeries.y
        IN  /\ Len(x) = Len(y)
            /\ Len(x) = 3 * N - 1
            /\ \A p \in 1..Len(y) : (y[p] = None) <=> (p % 3 = 0)
            /\ \A k \in 1..(N - 1) : IsBreak(x, y, 3 * k)
            /\ WithoutBreaks(x, y) = Doubled[1]
            /\ WithoutBreaks(y, y) = Doubled[2]

\* the broken series of three states has been built
C15_Witness ==
    /\ SeriesDone
    /\ ret.energy_lst = << Num(123), NaN, Num(0) >>
    /\ LineSeries.x = << 0, 10, 10, 15, 25, 25, 30, 40 >>
    /\ LineSeries.y = << Num(123), Num(123), None, NaN, NaN, None, Num(0), Num(0) >>

\* C16: the hover-marker series of N >= 1 states has N x positions and N y
\* values; the k-th x is the k-th segment's start plus half the step size and
\* the k-th y is the k-th undoubled energy.
C16_Markers ==
    (SeriesDone /\ Len(ret.energy_lst) >= 1) =>
        LET N == Len(ret.energy_lst)
        IN  /\ Len(MarkerSeries.x) = N
            /\ Len(MarkerSeries.y) = N
            /\ \A k \in 0..(N - 1) :
                  /\ 2 * At(MarkerSeries.x, k) = 2 * At(Doubled[1], 2 * k) + DEFAULT_STEP_SIZE
                  /\ At(MarkerSeries.y, k) = At(ret.energy_lst, k)

\* the markers of three states have been placed
C16_Witness ==
    /\ SeriesDone
    /\ ret.energy_lst = << Num(123), NaN, Num(0) >>
    /\ MarkerSeries.mode = "markers"
    /\ MarkerSeries.x = << 5, 20, 35 >>
    /\ MarkerSeries.y = << Num(123), NaN, Num(0) >>

\* thick line, thin line or markers
Kind(series) ==
    IF series.mode = "markers" THEN "markers"
    ELSE IF series.line.width = 6 THEN "thick" ELSE "thin"

Kinds(lst) == [i \in 1..Len(lst) |-> Kind(lst[i])]

\* C17: create_plotly_series emits [thick, thin, markers] for plot mode 'all',
\* [thick, markers] for 'states_only' and [thin, markers] for 'full_lines';
\* never more than three series, and the markers in every mode.
C17_PlotModes ==
    SeriesDone =>
        /\ ret.plot_mode \in PlotModes
        /\ ret.plot_mode = "all" => Kinds(ret.val) = << "thick", "thin", "markers" >>
        /\ ret.plot_mode = "states_only" => Kinds(ret.val) = << "thick", "markers" >>
        /\ ret.plot_mode = "full_lines" => Kinds(ret.val) = << "thin", "markers" >>
        /\ Len(ret.val) <= 3
        /\ \E i \in 1..Len(ret.val) : Kind(ret.val[i]) = "markers"

\* the series of mode 'states_only' have been emitted
C17_Witness ==
    /\ SeriesDone
    /\ ret.plot_mode = "states_only"
    /\ Len(ret.energy_lst) = 3
    /\ Len(ret.val) = 2

\* the columns a call groups by: the given ones without the removed ones
GroupCols(removed) ==
    { ret.jobs_variables[i] : i \in 1..Len(ret.jobs_variables) } \ removed

SameGroup(r1, r2, cs) == \A c \in cs : r1[c] = r2[c]

\* the input rows of the group that row r belongs to, as indices of the input
GroupOf(r, cs) == { i \in 1..Len(ret.df.rows) : SameGroup(ret.df.rows[i], r, cs) }

\* the groups of data_master are those of the columns cs: none is empty, their
\* rows share the group's values, no two groups share them, and every input
\* row has its group
GroupedBy(cs) ==
    LET dm == ret.data_master
    IN  /\ \A k \in 1..Len(dm) :
              /\ dm[k].df.rows # << >>
              /\ \A i \in 1..Len(dm[k].df.rows) :
                    SameGroup(dm[k].df.rows[i], dm[k].df.rows[1], cs)
        /\ \A k, l \in 1..Len(dm) :
              k # l => ~SameGroup(dm[k].df.rows[1], dm[l].df.rows[1], cs)
        /\ \A i \in 1..Len(ret.df.rows) :
              \E k \in 1..Len(dm) : SameGroup(ret.df.rows[i], dm[k].df.rows[1], cs)

\* the input row of least free energy among the indices I, the first on a tie
MinRow(I) ==
    CHOOSE i \in I :
        /\ \A j \in I : ret.df.rows[i]["ads_e"].v <= ret.df.rows[j]["ads_e"].v
        /\ \A j \in I : j < i => ret.df.rows[i]["ads_e"].v < ret.df.rows[j]["ads_e"].v

\* the path built from a table: the first row's energy of every state, the
\* missing marker for a state without a row, bulk at 0 and the first entry
\* shifted by 4.92
PathOfRows(rows) ==
    [i \in 1..5 |->
        LET st == rxn_mech_states[i]
            I == { j \in 1..Len(rows) : rows[j]["adsorbate"] = st }
            e == IF st = "bulk" THEN Num(0)
                 ELSE IF I = {} THEN NaN
                 ELSE rows[CHOOSE j \in I : \A l \in I : j <= l]["ads_e"]
        IN  IF i = 1 THEN FAdd(e, Num(O2_REF)) ELSE e]

\* C18: lowest_e_path groups by the given columns minus site and adsorbate; in
\* every group it keeps, for every adsorbate of the group, exactly one row,
\* that of least free energy (the first on a tie), and the group's path is
\* built from the kept rows only.
C18_LowestRows ==
    (ret.op = "lowest_e_path") =>
        LET dm == ret.data_master
            cs == GroupCols({"site", "adsorbate"})
        IN  /\ GroupedBy(cs)
            /\ err = "none"
            /\ Len(ret.energy_lsts) = Len(dm)
            /\ \A k \in 1..Len(dm) :
                  /\ \A a \in Adsorbates :
                        LET I == { i \in GroupOf(dm[k].df.rows[1], cs) :
                                     ret.df.rows[i]["adsorbate"] = a }
                            kept == { j \in 1..Len(dm[k].df.rows) :
                                        dm[k].df.rows[j]["adsorbate"] = a }
                        IN  IF I = {} THEN kept = {}
                            ELSE /\ Cardinality(kept) = 1
                                 /\ \A j \in kept : dm[k].df.rows[j] = ret.df.rows[MinRow(I)]
                  /\ ret.energy_lsts[k] = PathOfRows(dm[k].df.rows)

\* the group with oh at 1.5 and then at 1.0 has kept the row at 1.0
C18_Witness ==
    /\ ret.op = "lowest_e_path"
    /\ ret.jobs_variables = << "system", "site", "adsorbate" >>
    /\ Len(ret.df.rows) = 3
    /\ ret.df.rows[1]["adsorbate"] = "oh" /\ ret.df.rows[1]["ads_e"] = Num(150)
    /\ ret.df.rows[2]["adsorbate"] = "oh" /\ ret.df.rows[2]["ads_e"] = Num(100)
    /\ ret.df.rows[3] = [system |-> "B", site |-> "top", adsorbate |-> "ooh",
                          ads_e |-> Num(300)]
    /\ Len(ret.data_master) = 2
    /\ ret.data_master[1].df.rows = << ret.df.rows[2] >>
    /\ ret.energy_lsts[1][4] = Num(100)

\* a group with oh at the same energy on two sites has kept the first row
C18_WitnessTie ==
    /\ ret.op = "lowest_e_path"
    /\ Len(ret.df.rows) = 2
    /\ ret.df.rows[1] = [system |-> "A", site |-> "top", adsorbate |-> "oh",
                          ads_e |-> Num(150)]
    /\ ret.df.rows[2] = [system |-> "A", site |-> "hollow", adsorbate |-> "oh",
                          ads_e |-> Num(150)]
    /\ ret.data_master[1].df.rows = << ret.df.rows[1] >>

\* C19: plot_all_states selects no minimum and groups by every given column
\* except adsorbate (site is kept): every distinct site variant is a group of
\* its own with its own path, and every input row is in exactly one group's
\* table.
C19_AllStates ==
    (ret.op = "plot_all_states") =>
        LET dm == ret.data_master
            cs == GroupCols({"adsorbate"})
        IN  /\ "site" \in cs
            /\ GroupedBy(cs)
            /\ \A k \in 1..Len(dm) :
                  dm[k].df.rows =
                      SelectSeq(ret.df.rows, LAMBDA r : SameGroup(r, dm[k].df.rows[1], cs))
            /\ \A i, j \in 1..Len(ret.df.rows) :
                  ret.df.rows[i]["site"] # ret.df.rows[j]["site"] =>
                      \A k \in 1..Len(dm) :
                          ~(/\ SameGroup(ret.df.rows[i], dm[k].df.rows[1], cs)
                            /\ SameGroup(ret.df.rows[j], dm[k].df.rows[1], cs))
            /\ err = "none" =>
                  /\ Len(ret.energy_lsts) = Len(dm)
                  /\ \A k \in 1..Len(dm) : ret.energy_lsts[k] = PathOfRows(dm[k].df.rows)

\* two oh rows of one system on two sites, at different energies, have become
\* two groups of one row each
C19_Witness ==
    /\ ret.op = "plot_all_states"
    /\ err = "none"
    /\ ret.jobs_variables = << "system", "site", "adsorbate" >>
    /\ Len(ret.df.rows) = 3
    /\ ret.df.rows[1] = [system |-> "A", site |-> "top", adsorbate |-> "oh",
                          ads_e |-> Num(150)]
    /\ ret.df.rows[2] = [system |-> "A", site |-> "hollow", adsorbate |-> "oh",
                          ads_e |-> Num(100)]
    /\ ret.df.rows[3] = [system |-> "A", site |-> "top", adsorbate |-> "ooh",
                          ads_e |-> Num(300)]
    /\ Len(ret.data_master) = 2
    /\ ret.data_master[1].df.rows = << ret.df.rows[2] >>
    /\ ret.data_master[2].df.rows = << ret.df.rows[1], ret.df.rows[3] >>

\* the number of series a group contributes
SeriesPerGroup == IF ret.op = "lowest_e_path" THEN 3 ELSE 2

\* the ideal path under the call's bias
IdealPath ==
    << Num(492 - 4 * ret.bias), Num(369 - 3 * ret.bias), Num(246 - 2 * ret.bias),
       Num(123 - ret.bias), Num(0) >>

\* C20: both functions return the series of all groups first, in group order,
\* followed (only when create_ideal_series) by the ideal series of
\* [4.92, 3.69, 2.46, 1.23, 0] under the same bias: for G >= 1 groups
\* lowest_e_path returns 3G + 2 series with ideal and 3G without,
\* plot_all_states 2G + 2 and 2G.
C20_SeriesOrder ==
    (ret.op \in {"lowest_e_path", "plot_all_states"} /\ err = "none") =>
        LET G == Len(ret.data_master)
            n == SeriesPerGroup
            val == ret.val
        IN  /\ G >= 1
            /\ Len(val) = n * G + (IF ret.create_ideal_series THEN 2 ELSE 0)
            /\ \A k \in 1..G : \A j \in 1..n :
                  LET series == val[n * (k - 1) + j]
                  IN  /\ series.legendgroup[2] = ret.data_master[k].key
                      /\ series.mode = "markers" =>
                            series.y = apply_bias(ret.bias, ret.energy_lsts[k])
            /\ ret.create_ideal_series =>
                  /\ val[n * G + 1].legendgroup = "Ideal"
                  /\ val[n * G + 2].legendgroup = "Ideal"
                  /\ Kinds(SubSeq(val, n * G + 1, n * G + 2)) = << "thin", "markers" >>
                  /\ val[n * G + 2].y = IdealPath
                  /\ val[n * G + 1].y = AddBreaks(
                          convert_to_plotting_list(IdealPath, DEFAULT_SPACING,
                                                   DEFAULT_STEP_SIZE)[1],
                          convert_to_plotting_list(IdealPath, DEFAULT_SPACING,
                                                   DEFAULT_STEP_SIZE)[2])[2]

\* lowest_e_path has returned the series of two groups and the ideal series
\* under a non-zero bias
C20_Witness ==
    /\ ret.op = "lowest_e_path"
    /\ err = "none"
    /\ Len(ret.data_master) = 2
    /\ ret.create_ideal_series
    /\ ret.bias = 123
    /\ Len(ret.val) = 8

\* plot_all_states has returned the series of three groups without the ideal
\* series
C20_WitnessAllStates ==
    /\ ret.op = "plot_all_states"
    /\ err = "none"
    /\ Len(ret.data_master) = 3
    /\ ~ret.create_ideal_series
    /\ Len(ret.val) = 6

\* plot_all_states has returned the series of two groups and the ideal series
C20_WitnessAllStatesIdeal ==
    /\ ret.op = "plot_all_states"
    /\ err = "none"
    /\ Len(ret.data_master) = 2
    /\ ret.create_ideal_series
    /\ Len(ret.val) = 6

\* C12: constructing from an input table that lacks the state column or the
\* free-energy column fails at once with a schema error (a KeyError counted as
\* one); construction never completes with a path of missing values.
C12_SchemaError ==
    (Constructed /\ DefaultTitles /\ free_energy_df.cols # {state_title, fe_title}) =>
        /\ pc = "failed"
        /\ err \in {"SchemaError", "KeyError"}
        /\ energy_lst = << >>

\* C21: after construction every apply_bias, plot_fed_series and
\* create_plotly_series call leaves the instance's table, energy_lst,
\* overpotential and limiting_step unchanged, and apply_bias leaves the list it
\* is passed unchanged; plot_fed_series(bias = b) returns the geometry a fresh
\* instance of the same input returns, whatever calls preceded it; and the
\* caller's input table is the table it was before construction.
C21_Frame ==
    [][/\ pc = "ready" =>
             /\ pc' = "ready"
             /\ fe_df' = fe_df
             /\ energy_lst' = energy_lst
             /\ overpotential' = overpotential
             /\ limiting_step' = limiting_step
             /\ free_energy_df' = free_energy_df
             /\ ret'.op = "apply_bias" => ret'.arg_after = ret'.arg
             /\ ret'.op = "plot_fed_series" =>
                   ret'.val = plot_fed_series(ORR_Free_E_Plot(free_energy_df),
                                  ret'.bias, None, None, << "red" >>, 0,
                                  "adsorbate", ret'.plot_mode, None)
       /\ (pc = "new" /\ pc' \in {"ready", "failed"}) =>
             /\ free_energy_df' \in FrameTables
             /\ fe_df_bulk' = add_bulk_entry(free_energy_df', Num(0))
      ]_vars

\* plot_fed_series has answered at a non-zero bias on an instance with a fully
\* numeric path
C21_Witness ==
    /\ pc = "ready"
    /\ ret.op = "plot_fed_series"
    /\ ret.bias = 123
    /\ energy_lst = << Num(492), Num(300), Num(200), Num(100), Num(0) >>
    /\ ret.val[Len(ret.val)].y = << Num(0), Num(-69), Num(-46), Num(-23), Num(0) >>

\* C22: for every table with exactly one bulk row and one ooh row, in whatever
\* order the rows come (the constructor appends the bulk row after the adsorbate
\* rows), the 2-electron energy list is [bulk energy + 4.92, ooh energy, 3.52].
C22_BulkOffset ==
    (/\ pc = "ready"
     /\ DefaultTitles
     /\ CountRows(fe_df, "adsorbate", "bulk") = 1
     /\ CountRows(fe_df, "adsorbate", "ooh") = 1) =>
        energy_lst_h2o2 = << FAdd(Loc(fe_df, "adsorbate", "bulk")[1]["ads_e"], Num(O2_REF)),
                             Loc(fe_df, "adsorbate", "ooh")[1]["ads_e"],
                             Num(H2O2_E) >>

\* the positions of the ooh rows of the table
OohRows == {i \in 1..Len(fe_df.rows) : fe_df.rows[i]["adsorbate"] = "ooh"}

\* C23: the 2-electron overpotential is (energy of the first ooh row) - 4.22,
\* whatever the o, oh and bulk rows of the table are and wherever they stand: it
\* is a function of that ooh energy alone.
C23_OOHOnly ==
    (pc = "table" /\ ret.op = "calc_overpotential_h2o2" /\ OohRows # {}) =>
        LET first == CHOOSE i \in OohRows : \A j \in OohRows : i <= j
            ooh_ads_e == fe_df.rows[first]["ads_e"]
        IN  /\ err = "none"
            /\ ret.val = IF ooh_ads_e.nan THEN NaN ELSE Num(ooh_ads_e.v - OOH_2E_REF)

\* the overpotential of a table with two ooh rows of different energies, the
\* first after an o row, and bulk and oh rows
C23_Witness ==
    /\ pc = "table"
    /\ ret.op = "calc_overpotential_h2o2"
    /\ Len(fe_df.rows) = 5
    /\ fe_df.rows[1]["adsorbate"] = "o"
    /\ fe_df.rows[2] = [adsorbate |-> "ooh", ads_e |-> Num(300)]
    /\ fe_df.rows[3] = [adsorbate |-> "ooh", ads_e |-> NaN]
    /\ fe_df.rows[4]["adsorbate"] = "bulk"
    /\ fe_df.rows[5]["adsorbate"] = "oh"
    /\ ret.val = Num(-122)

\* the rule tests true on the instance's table: its column is there and every
\* row but the bulk rows holds its value
Matches(rule) ==
    /\ rule.df_col_name \in fe_df.cols
    /\ \A r \in {fe_df.rows[j] : j \in 1..Len(fe_df.rows)} :
          r["adsorbate"] = "bulk" \/ r[rule.df_col_name] = rule.value_i

\* the value the matching rules give a style attribute: that of the last
\* matching rule of the list that sets it, or the default when there is none
StyleOf(smart_format, attribute, default) ==
    LET rules == IF smart_format = None THEN << >> ELSE smart_format.rules
        M == {i \in 1..Len(rules) : Matches(rules[i]) /\ rules[i].setting_name = attribute}
    IN  IF M = {} THEN default
        ELSE rules[CHOOSE i \in M : \A j \in M : j <= i].setting_value

\* C24: a smart_format rule takes effect only if its column is in the table
\* and every non-bulk row, placeholder rows included, holds its value; of the
\* matching rules that set one attribute the last of the list wins; a rule on an
\* absent column is skipped without error; with no matching rule the dash is
\* None and the line colour is the colour argument.
C24_SmartFormat ==
    (pc = "ready" /\ ret.op = "plot_fed_series" /\ "smart_format" \in DOMAIN ret) =>
        /\ err = "none"
        /\ ret.val[1].line.dash = StyleOf(ret.smart_format, "dash", None)
        /\ ret.val[1].line.color = StyleOf(ret.smart_format, "color", "red")
        /\ ret.val[2].line.color = StyleOf(ret.smart_format, "color", "red")
        /\ ret.val[3].marker.color = "red"

\* two matching rules set the dash, and the second one is in the series
C24_Witness ==
    /\ pc = "ready"
    /\ ret.op = "plot_fed_series"
    /\ "smart_format" \in DOMAIN ret
    /\ ret.smart_format # None
    /\ Len(ret.smart_format.rules) = 2
    /\ Matches(ret.smart_format.rules[1]) /\ Matches(ret.smart_format.rules[2])
    /\ ret.smart_format.rules[1].setting_name = "dash"
    /\ ret.smart_format.rules[2].setting_name = "dash"
    /\ ret.smart_format.rules[1].setting_value = "dot"
    /\ ret.val[1].line.dash = "dashdot"

\* a rule whose value every input row holds does not match, a placeholder row
\* holding no value
C24_WitnessPlaceholder ==
    /\ pc = "ready"
    /\ ret.op = "plot_fed_series"
    /\ "smart_format" \in DOMAIN ret
    /\ ret.smart_format # None
    /\ Len(ret.smart_format.rules) = 1
    /\ ret.smart_format.rules[1].df_col_name = "system"
    /\ Len(free_energy_df.rows) = 2
    /\ \A j \in 1..2 : free_energy_df.rows[j]["system"] = ret.smart_format.rules[1].value_i
    /\ ret.smart_format.rules[1].setting_name = "dash"
    /\ ret.val[1].line.dash = None

AdsDone == pc = "returned" /\ ret.op = "df_calc_adsorption_e"

\* the corrections dict is consulted for row
Consulted(row) ==
    /\ ret.corrections_dict # None
    /\ \/ ret.corrections_mode = "df_column" /\ row["gibbs_correction"] = Num(0)
       \/ ret.corrections_mode = "corr_dict"

\* the adsorption energy of row before any correction
Uncorrected(row) ==
    row["elec_energy"].v - (BARE_SLAB_E + AtomCounts(row["adsorbate"]).O * OXY_REF
                                        + AtomCounts(row["adsorbate"]).H * HYD_REF)

\* C25: in df_column mode a non-zero column correction is used as it is; the
\* dict is consulted only in df_column mode on a column correction of exactly 0
\* with a dict given, or in corr_dict mode with a dict given; whenever it is
\* consulted an adsorbate it lacks is an error; the correction is 0 without a
\* word only when no dict is consulted in a mode other than df_column.
C25_Corrections ==
    AdsDone =>
        LET rows == ret.arg.rows
            missing == \E i \in 1..Len(rows) :
                          Consulted(rows[i]) /\ rows[i]["adsorbate"] \notin DOMAIN ret.corrections_dict
        IN  IF missing
            THEN err = "KeyError" /\ ret.df = ret.arg
            ELSE /\ err = "none"
                 /\ Len(ret.df.rows) = Len(rows)
                 /\ \A i \in 1..Len(rows) :
                       ret.df.rows[i]["ads_e"].v - Uncorrected(rows[i]) =
                          IF Consulted(rows[i])
                          THEN ret.corrections_dict[rows[i]["adsorbate"]]
                          ELSE IF ret.corrections_mode = "df_column"
                               THEN rows[i]["gibbs_correction"].v
                               ELSE 0

\* a df_column call with a dict on a table whose first row has a non-zero
\* column correction and whose second has 0: the column value and the dict
\* value are what was added
C25_Witness ==
    /\ AdsDone
    /\ err = "none"
    /\ ret.corrections_mode = "df_column"
    /\ ret.corrections_dict = [ooh |-> 40]
    /\ Len(ret.arg.rows) = 2
    /\ ret.arg.rows[1] = [adsorbate |-> "ooh", elec_energy |-> Num(-1000), gibbs_correction |-> Num(30)]
    /\ ret.arg.rows[2] = [adsorbate |-> "ooh", elec_energy |-> Num(-1000), gibbs_correction |-> Num(0)]
    /\ ret.df.rows[1]["ads_e"] = Num(150)
    /\ ret.df.rows[2]["ads_e"] = Num(160)

\* a consulted dict without the adsorbate of a row
C25_WitnessKeyError ==
    /\ AdsDone
    /\ err = "KeyError"
    /\ ret.corrections_mode = "corr_dict"
    /\ ret.corrections_dict = [ooh |-> 40]
    /\ \E i \in 1..Len(ret.arg.rows) : ret.arg.rows[i]["adsorbate"] = "o"

UnderDefaultNames(df) ==
    [cols |-> {"adsorbate", "ads_e"},
     rows |-> [i \in 1..Len(df.rows) |->
                 [adsorbate |-> df.rows[i][state_title], ads_e |-> df.rows[i][fe_title]]]]

\* C27: state_title and free_e_title select the columns of every construction
\* step: on a table whose columns carry other names construction succeeds and
\* gives the path, overpotential, limiting step and 2-electron results the same
\* data gives under the names adsorbate and ads_e.
C27_Titles ==
    (/\ Constructed
     /\ ~DefaultTitles
     /\ free_energy_df.cols = {state_title, fe_title}
     /\ ~H2O2ValueError(fill_missing_data(add_bulk_entry(UnderDefaultNames(free_energy_df), Num(0)),
                                          "adsorbate", "ads_e"))) =>
        LET df == fill_missing_data(add_bulk_entry(UnderDefaultNames(free_energy_df), Num(0)),
                                    "adsorbate", "ads_e")
            path == rxn_energy_lst(df, "adsorbate", "ads_e")
        IN  /\ pc = "ready"
            /\ energy_lst = path
            /\ overpotential = calc_overpotential(path)[1]
            /\ limiting_step = calc_overpotential(path)[2]
            /\ energy_lst_h2o2 = rxn_energy_lst_h2o2(df)
            /\ overpotential_h2o2 = calc_overpotential_h2o2(df)

\* C28: in lowest_e_path with the ideal series and a colour list longer than
\* the number of groups no group series has the colour of the ideal series (the
\* last entry of the list) and different groups have different colours.
C28_GroupColours ==
    (/\ ret.op = "lowest_e_path"
     /\ err = "none"
     /\ ret.create_ideal_series
     /\ Len(color_list) > Len(ret.data_master)) =>
        LET G == Len(ret.data_master)
            colour(k) == ret.val[3 * (k - 1) + 1].line.color
            ideal == ret.val[3 * G + 1].line.color
        IN  /\ ideal = color_list[Len(color_list)]
            /\ \A k \in 1..G : \A j \in 1..3 :
                  /\ ret.val[3 * (k - 1) + j].mode = "lines" =>
                        ret.val[3 * (k - 1) + j].line.color = colour(k)
                  /\ ret.val[3 * (k - 1) + j].mode = "markers" =>
                        ret.val[3 * (k - 1) + j].marker.color = colour(k)
            /\ \A k \in 1..G : colour(k) # ideal
            /\ \A k1, k2 \in 1..G : k1 # k2 => colour(k1) # colour(k2)

\* C29: in every plot mode exactly one of the series create_plotly_series
\* emits for a path has its legend entry shown, and the hover-marker series
\* never has.
C29_OneLegend ==
    SeriesDone =>
        /\ Cardinality({i \in 1..Len(ret.val) : ret.val[i].showlegend}) = 1
        /\ \A i \in 1..Len(ret.val) :
              ret.val[i].mode = "markers" => ~ret.val[i].showlegend

\* mode 'all' has emitted the thick line with its legend entry and the thin
\* line and the markers without
C29_Witness ==
    /\ SeriesDone
    /\ ret.plot_mode = "all"
    /\ Len(ret.val) = 3
    /\ ret.val[1].showlegend
    /\ ~ret.val[2].showlegend
    /\ ~ret.val[3].showlegend

\* mode 'full_lines' has emitted the thin line with the legend entry
C29_WitnessFullLines ==
    /\ SeriesDone
    /\ ret.plot_mode = "full_lines"
    /\ Kinds(ret.val) = << "thin", "markers" >>
    /\ ret.val[1].showlegend

\* 1.5 * i + 0.5, in tenths
TickPosition(i) == 15 * i + 5

\* C30: the hover-marker x positions of a 5-state path are, one to one and in
\* order, the tick positions 1.5 * i + 0.5 (i = 0..4) of plotly_fed_layout,
\* and the layout has as many tick labels (O2, OOH, O, OH, H2O) as tick
\* positions.
C30_Ticks ==
    /\ (pc = "ready" /\ ret.op = "plot_fed_series") =>
          /\ Len(energy_lst) = 5
          /\ ret.val[Len(ret.val)].mode = "markers"
          /\ ret.val[Len(ret.val)].x = [i \in 1..5 |-> TickPosition(i - 1)]
          /\ \A plot_title \in PlotTitles : \A tick_lab_size \in FontSizes :
                ret.val[Len(ret.val)].x =
                    plotly_fed_layout(plot_title, 18, tick_lab_size, 18, 18).xaxis.tickvals
    /\ ret.op = "plotly_fed_layout" =>
          /\ ret.val.xaxis.tickvals = [i \in 1..5 |-> TickPosition(i - 1)]
          /\ ret.val.xaxis.ticktext = << "O2", "OOH", "O", "OH", "H2O" >>
          /\ Len(ret.val.xaxis.ticktext) = Len(ret.val.xaxis.tickvals)

\* the markers of a path with missing states, at the five tick positions
C30_Witness ==
    /\ pc = "ready"
    /\ ret.op = "plot_fed_series"
    /\ energy_lst = << Num(492), Num(300), NaN, NaN, Num(0) >>
    /\ ret.val[Len(ret.val)].x = << 5, 20, 35, 50, 65 >>

\* the layout has been made
C30_WitnessLayout ==
    /\ ret.op = "plotly_fed_layout"
    /\ ret.val.title = "ORR"
    /\ ret.val.xaxis.tickvals = << 5, 20, 35, 50, 65 >>

====
